---- MODULE Spec2Model ----
(***************************************************************************)
(* The ReliefWeb crawler and the storage it writes to                       *)
(* (datamgr/database/database.py), as a state machine.  The repository     *)
(* holds two generations of the crawler, and impl says which one the       *)
(* crawler object is:                                                      *)
(*   "corpusama"  corpusama/source/reliefweb.py: a run is started by all() *)
(*                (FULL) or new() (INCREMENTAL) and repeats one() until it *)
(*                returns False or raises;                                 *)
(*   "datamgr"    datamgr/source/reliefweb.py: run() makes n_calls calls.  *)
(* One crawler object works against one remote source and one SQLite       *)
(* database.  The body of a call is cut at the database commits, so that   *)
(* the state between two commits is a state of the model.                  *)
(***************************************************************************)
EXTENDS Integers, Sequences, FiniteSets, TLC

\* ------------------------------------------------------------------ bounds
MaxSrc == 3        \* records held by the remote source
MaxTime == 2       \* distinct date.changed values 1..MaxTime
MaxPage == 2       \* page sizes 1..MaxPage (parameters["limit"])
MaxLimit == 3      \* all(limit)/new(limit) with limit in 0..MaxLimit
MaxRuns == 3       \* runs started on one database

\* ------------------------------------------------------- program constants
NoWait == -1       \* the None of wait_dict

Unset == -2        \* an attribute not yet in self.__dict__

\* wait_dict={0: 1, 5: 49, 10: 99, 20: 499, 30: None}
wait_dict == (0 :> 1) @@ (5 :> 49) @@ (10 :> 99) @@ (20 :> 499) @@ (30 :> NoWait)

SortAsc == <<"date.changed:asc">>

\* ------------------------------------------------------------------ inputs
\* limits a caller passes to all()/new(): the small ones, and those that reach
\* the further buckets of wait_dict
Limits == (0..MaxLimit) \cup {7, 30}

Sorts == {SortAsc, <<"date.changed:desc">>, <<>>}

NoFilter == [operator |-> "none", conditions |-> <<>>]

CallerFilters ==
    {NoFilter,
     [operator |-> "AND", conditions |-> <<[field |-> "id", value |-> [from |-> 2]]>>]}

\* The remote source: records 1..n in ascending date.changed order.
Sources ==
    UNION {{s \in [1..n -> [id : 1..MaxSrc, changed : 1..MaxTime]] :
               /\ \A i \in 1..n : s[i].id = i
               /\ \A i \in 1..n, j \in 1..n : i < j => s[i].changed <= s[j].changed}
           : n \in 0..MaxSrc}

VARIABLES
    src,                 \* the remote source
    impl,                \* the generation of the crawler
    hasDb,               \* database given to the constructor (self.db)
    n_calls,             \* self.n_calls (datamgr)
    original_parameters, \* self.original_parameters: the parameters of the input
    parameters,          \* self.parameters
    call_n,              \* self.call_n
    limit,               \* self.limit (corpusama)
    wait,                \* self.wait
    response_json,       \* self.response_json
    hash,                \* self.hash
    date_changed_vals,   \* self.date_changed_vals
    raw,                 \* self.raw: call_n -> response, without database
    db_raw,              \* table _raw, rows keyed by id
    db_log,              \* table _log, rows keyed by api_params_hash
    pc,                  \* position in the run
    mode,                \* "FULL" (all, run), "INCREMENTAL" (new) or "none"
    halt,                \* how the last run ended
    raised,              \* class of the exception that ended it
    reqs,                \* parameters of the requests issued in this run
    resps,               \* responses received in this run
    sleeps,              \* seconds slept after each call of this run
    start,               \* storage and crawl state when the run started
    runs,                \* runs started so far
    tables,              \* self.db.tables: the columns of each table
    db_vert,             \* table _vert, rows keyed by id
    now,                 \* the clock
    ops,                 \* the last write made to the tables
    last_rows,           \* per table and key, the row last written
    vert_size,           \* self.vert_size
    vert_run,            \* self.vert_run
    vert_runs,           \* self.vert_runs
    vert_start,          \* the clock and the tables when this run started
    tagged,              \* batches given to the tagger in this run
    wrote,               \* batches written into _vert in this run
    bundle,              \* the DocBundle given to stanza_to_vert: ids and documents
    formatted,           \* bundle.doc after stanza_to_vert
    warnings,            \* what lemmatize_fail logged: <<record id, word text>>
    files,               \* the files stored under the directory of downloads
    del_files,           \* self.del_files (rwapi Manager)
    del_start            \* the files and the arguments when del_exclude_files ran

\* the variables of the crawler
cvars == <<src, hasDb, n_calls, original_parameters, parameters, call_n, limit, wait,
           response_json, hash, date_changed_vals, raw, mode, halt, reqs, resps,
           sleeps, start, runs>>

\* the variables of the schema and of the history of writes
svars == <<tables, now, ops, last_rows>>

\* the variables of the annotation pipeline
bvars == <<db_vert, vert_size, vert_run, vert_runs, vert_start, tagged, wrote>>

\* the variables of the formatting
fvars == <<bundle, formatted, warnings>>

\* the variables of the stored files
dvars == <<files, del_files, del_start>>

vars == <<cvars, impl, db_raw, db_log, pc, raised, svars, bvars, fvars, dvars>>

\* ------------------------------------------------------------------ schema
\* The columns of the tables as the schema files create them.
BaseTables ==
    [_raw |-> <<"id", "changed", "body_html", "title", "api_params_hash">>,
     _log |-> <<"api_params_hash", "api_params", "count", "total_count">>,
     _vert |-> <<"id", "vert_date", "vert">>]

\* values of a frame that stand for a missing value, and SQL's NULL
PyNaN == "<nan>"

PyNone == "<None>"

Null == "<NULL>"

\* --------------------------------------------------- inputs of the storage
Ids == {"1", "2"}

\* Records of a response: an id and some of the fields title and lang; title is
\* a column of _raw from the start, lang is not.
RawRecords ==
    UNION {{[id |-> i],
            [id |-> i, title |-> "x"],
            [id |-> i, title |-> "y", lang |-> "x"]} : i \in Ids}

PageLens == 0..2

Pages == UNION {[1..n -> RawRecords] : n \in PageLens}

Hashes == {"h1"}

\* ----------------------------------------------------------------- helpers
Min(a, b) == IF a <= b THEN a ELSE b

SetMax(S) == CHOOSE x \in S : \A y \in S : y <= x

SetMin(S) == CHOOSE x \in S : \A y \in S : x <= y

Reverse(s) == [i \in 1..Len(s) |-> s[Len(s) + 1 - i]]

RECURSIVE SumCounts(_)
SumCounts(rs) ==
    IF rs = <<>> THEN 0 ELSE rs[1].count + SumCounts(Tail(rs))

\* --------------------------------------------------- the remote source (API)
\* A condition of a filter holds of a record: a range value {"from": v} admits
\* the records whose field is v or more.
Matches(rec, cond) ==
    IF cond.field = "date.changed"
    THEN rec.changed >= cond.value.from
    ELSE rec.id >= cond.value.from

FilterMatches(rec, filter) ==
    \A i \in 1..Len(filter.conditions) : Matches(rec, filter.conditions[i])

\* The records of the source in the order the sort parameter asks for.
Ordered(sort) == IF sort = SortAsc THEN src ELSE Reverse(src)

\* _request: the page of the records that match parameters["filter"], skipping
\* parameters["offset"] of them and holding at most parameters["limit"].
Request(p) ==
    LET sel(rec) == FilterMatches(rec, p.filter)
        found == SelectSeq(Ordered(p.sort), sel)
        page == SubSeq(found, p.offset + 1, Min(p.offset + p.limit, Len(found)))
    IN  [count |-> Len(page), totalCount |-> Len(found), data |-> page]

NoResponse == [count |-> 0, totalCount |-> 0, data |-> <<>>]

\* _hash: a digest of the parameter object, one per distinct object.
Hash(p) == [digest |-> p]

NoHash == [unset |-> TRUE]

\* ------------------------------------------------------------------- quota
\* _set_wait: the wait of the bucket with the greatest threshold <= n.
SetWait(n) ==
    wait_dict[SetMax({k \in DOMAIN wait_dict : k <= n})]

\* _enforce_quota: a None wait halts the crawl before the call is made.
EnforceQuota(w) == w = NoWait

\* ----------------------------------------------------------------- storage
\* A table is the sequence of its rows, in rowid order.
Rows(table) == {table[i] : i \in 1..Len(table)}

\* Mutant of Insert: a plain INSERT into a table without a key.
InsertAppend(table, rows, key) == table \o rows

\* Mutant of Insert: INSERT OR IGNORE, the row already stored is kept.
InsertIgnore(table, rows, key) ==
    table \o SelectSeq(rows, LAMBDA r : \A i \in 1..Len(table) : table[i][key] # r[key])

\* Database.insert: INSERT OR REPLACE of the rows, in order, into a table keyed
\* by the column `key`; one commit.  REPLACE deletes the row that holds the
\* key and inserts the new row.
RECURSIVE Insert(_, _, _)
Insert(table, rows, key) ==
    IF rows = <<>> THEN table
    ELSE Insert(SelectSeq(table, LAMBDA r : r[key] # rows[1][key]) \o <<rows[1]>>,
                Tail(rows), key)

\* ReliefWeb.insert, up to db.insert: one row per record of the page, with the
\* hash of the call that fetched it.
RawRows(resp, h) ==
    [i \in 1..Len(resp.data) |->
        [id |-> resp.data[i].id, changed |-> resp.data[i].changed,
         api_params_hash |-> h]]

\* Mutant of LogRows: the hash is that of the filter, not of the whole
\* parameter object.
LogRowsHashOfFilter(h, p, resp) ==
    <<[api_params_hash |-> Hash(p.filter), api_params |-> p, count |-> resp.count,
       total_count |-> resp.totalCount]>>

\* ReliefWeb._insert_log: the record of one call.
LogRows(h, p, resp) ==
    <<[api_params_hash |-> h, api_params |-> p, count |-> resp.count,
       total_count |-> resp.totalCount]>>

\* ------------------------------------------------- storage, column by column
Range(s) == {s[i] : i \in 1..Len(s)}

\* pd.json_normalize: a frame with the union of the records' fields as its
\* columns; a record that lacks a field holds NaN there.
Frame(recs) ==
    LET cols == UNION {DOMAIN recs[i] : i \in 1..Len(recs)}
    IN  [columns |-> cols,
         rows |-> [i \in 1..Len(recs) |->
                      [c \in cols |-> IF c \in DOMAIN recs[i] THEN recs[i][c] ELSE PyNaN]]]

\* df[c] = v
WithColumn(df, c, v) ==
    [columns |-> df.columns \cup {c},
     rows |-> [i \in 1..Len(df.rows) |->
                  [k \in df.columns \cup {c} |-> IF k = c THEN v ELSE df.rows[i][k]]]]

\* for x in [x for x in self.db.tables[table] if x not in df.columns]:
\*     df[x] = None
FillMissing(df, cols) ==
    [columns |-> df.columns \cup Range(cols),
     rows |-> [i \in 1..Len(df.rows) |->
                  [k \in df.columns \cup Range(cols) |->
                      IF k \in df.columns THEN df.rows[i][k] ELSE PyNone]]]

\* The columns of a table after those of a frame are added to it: the frame's
\* unknown columns follow the known ones.
AddMissingColumns(cols, dfcols) ==
    cols \o SelectSeq(<<"title", "lang">>, LAMBDA c : c \in dfcols /\ c \notin Range(cols))

\* ALTER TABLE ADD COLUMN: the rows already stored hold NULL in a new column.
ExtendRows(table, cols) ==
    [i \in 1..Len(table) |->
        [c \in Range(cols) |-> IF c \in DOMAIN table[i] THEN table[i][c] ELSE Null]]

\* df.astype(str), of one value
AsStr(v) == IF v = PyNaN THEN "nan" ELSE IF v = PyNone THEN "None" ELSE v

\* convert.nan_to_none, of one value
NanToNone(v) == IF v \in {"nan", "None"} THEN Null ELSE v

\* df[self.tables[table]].to_records(): of each row the columns of the table,
\* and nothing else.
Records(df, cols) ==
    [i \in 1..Len(df.rows) |-> [c \in Range(cols) |-> NanToNone(AsStr(df.rows[i][c]))]]

\* Mutant of DatabaseInsert: the frame's missing values are stored as the
\* strings they print as.
DatabaseInsertUnconverted(table, df, cols, key) ==
    Insert(table, [i \in 1..Len(df.rows) |-> [c \in Range(cols) |-> AsStr(df.rows[i][c])]],
           key)

\* Database.insert(df, table) on a frame with missing values.
DatabaseInsert(table, df, cols, key) == Insert(table, Records(df, cols), key)

\* The row a key holds, and the keys a table holds.
RowsOf(table, key, k) == SelectSeq(table, LAMBDA r : r[key] = k)

Keys(table, key) == {table[i][key] : i \in 1..Len(table)}

\* Of a sequence of rows the last one of each key.
Latest(old, rows, key) ==
    [k \in DOMAIN old \cup Keys(rows, key) |->
        IF k \in Keys(rows, key)
        THEN LET given == RowsOf(rows, key, k) IN given[Len(given)]
        ELSE old[k]]

NoOp == [table |-> "none", idempotent |-> TRUE, replaced |-> FALSE]

NoRows == [_raw |-> <<>>, _log |-> <<>>, _vert |-> <<>>]

\* The rows replace a row: one that the table holds, or one of their own.
Replaces(table, rows, key) ==
    \/ Keys(rows, key) \cap Keys(table, key) # {}
    \/ Cardinality(Keys(rows, key)) < Len(rows)

\* --------------------------------------------------- crawler (corpusama)
\* Mutant of Offset: the count is added before the first call of a run too.
OffsetEager(p, cn, resp) ==
    [parameters |-> [p EXCEPT !.offset = @ + resp.count],
     raise |-> cn > 0 /\ resp.count = 0]

\* Mutant of Offset: a count of 0 does not halt the job.
OffsetNoHalt(p, cn, resp) ==
    [parameters |-> IF cn > 0 THEN [p EXCEPT !.offset = @ + resp.count] ELSE p,
     raise |-> FALSE]

\* ReliefWeb._offset: the new parameters, and whether UserWarning is raised.
Offset(p, cn, resp) ==
    IF cn > 0
    THEN [parameters |-> [p EXCEPT !.offset = @ + resp.count],
          raise |-> resp.count = 0]
    ELSE [parameters |-> p, raise |-> FALSE]

\* Mutant of UpdateFilter: the earliest date.changed value, not the latest.
UpdateFilterEarliest(p, orig, vals) ==
    IF vals # {}
    THEN [orig EXCEPT !.filter =
              [operator |-> "AND",
               conditions |-> orig.filter.conditions
                   \o <<[field |-> "date.changed", value |-> [from |-> SetMin(vals)]]>>]]
    ELSE p

\* Mutant of UpdateFilter: the filter is rewritten on an empty database too,
\* from the timestamp 0.
UpdateFilterAlways(p, orig, vals) ==
    [orig EXCEPT !.filter =
         [operator |-> "AND",
          conditions |-> orig.filter.conditions
              \o <<[field |-> "date.changed",
                    value |-> [from |-> IF vals # {} THEN SetMax(vals) ELSE 0]]>>]]

\* Mutant of UpdateFilter: the new condition is added to the current filter,
\* which holds those of the runs before.
UpdateFilterAccumulate(p, orig, vals) ==
    IF vals # {}
    THEN [p EXCEPT !.filter =
              [operator |-> "AND",
               conditions |-> p.filter.conditions
                   \o <<[field |-> "date.changed", value |-> [from |-> SetMax(vals)]]>>]]
    ELSE p

\* ReliefWeb._update_filter: the parameters of an incremental run.
UpdateFilter(p, orig, vals) ==
    IF vals # {}
    THEN LET latest == SetMax(vals)
             old_conditions == orig.filter.conditions
             new_conditions == <<[field |-> "date.changed", value |-> [from |-> latest]]>>
         IN  [orig EXCEPT !.filter = [operator |-> "AND",
                                      conditions |-> old_conditions \o new_conditions]]
    ELSE p

\* Mutant of SortOk: any sort parameter will do.
SortOkPresent(p) == p.sort # <<>>

\* ReliefWeb.new: the check of the sort parameter.
SortOk(p) == p.sort = SortAsc

\* Mutant of LimitReached: one call too many.
LimitReachedLate(cn, l) == cn > l

\* ReliefWeb.one: the check of call_n against limit.
LimitReached(cn, l) == cn >= l

\* The run ends: one() returned False (r = "none") or raised r.
Stop(h, r) ==
    /\ pc' = "idle"
    /\ halt' = h
    /\ raised' = r

\* What a run remembers of the moment it started.
Started(p) ==
    [offset |-> p.offset, raw |-> db_raw, log |-> db_log]

Init ==
    /\ src \in Sources
    /\ impl \in {"corpusama", "datamgr"}
    /\ hasDb \in BOOLEAN
    /\ original_parameters \in
           [offset : {0}, limit : 1..MaxPage, filter : CallerFilters, sort : Sorts]
    /\ parameters = original_parameters
    /\ call_n = Unset
    /\ limit = Unset
    /\ IF impl = "datamgr"
       THEN /\ n_calls \in Limits
            /\ wait = SetWait(n_calls)
       ELSE /\ n_calls = Unset
            /\ wait = Unset
    /\ response_json = NoResponse
    /\ hash = NoHash
    /\ date_changed_vals = {}
    /\ raw = <<>>
    /\ db_raw = <<>>
    /\ db_log = <<>>
    /\ pc = "idle"
    /\ mode = "none"
    /\ halt = "none"
    /\ raised = "none"
    /\ reqs = <<>>
    /\ resps = <<>>
    /\ sleeps = <<>>
    /\ start = Started(original_parameters)
    /\ runs = 0
    /\ tables = BaseTables
    /\ db_vert = <<>>
    /\ now = 0
    /\ ops = NoOp
    /\ last_rows = NoRows
    /\ vert_size = Unset
    /\ vert_run = Unset
    /\ vert_runs = Unset
    /\ vert_start = [now |-> 0, raw |-> <<>>, vert |-> <<>>]
    /\ tagged = <<>>
    /\ wrote = <<>>
    /\ bundle = <<>>
    /\ formatted = <<>>
    /\ warnings = <<>>
    /\ files = {}
    /\ del_files = {}
    /\ del_start = [ran |-> FALSE]

\* Mutant of RunAll: the wait is that of the bucket of the call index.
RunAllWaitByCallIndex(l) ==
    /\ limit' = l
    /\ call_n' = 0
    /\ wait' = SetWait(0)
    /\ pc' = "loop"
    /\ halt' = "none"
    /\ raised' = "none"

\* The body of ReliefWeb.all(limit), up to the first one().
RunAll(l) ==
    /\ limit' = l
    /\ call_n' = 0
    /\ wait' = SetWait(l)
    /\ pc' = "loop"
    /\ halt' = "none"
    /\ raised' = "none"

\* A FULL run is started: all(limit).
All(l) ==
    /\ impl = "corpusama"
    /\ pc = "idle"
    /\ runs < MaxRuns
    /\ runs' = runs + 1
    /\ mode' = "FULL"
    /\ RunAll(l)
    /\ reqs' = <<>>
    /\ resps' = <<>>
    /\ sleeps' = <<>>
    /\ start' = Started(parameters)
    /\ UNCHANGED <<src, impl, hasDb, n_calls, original_parameters, parameters, response_json, hash,
                   date_changed_vals, raw, db_raw, db_log>>
    /\ UNCHANGED <<svars, bvars, fvars, dvars>>

\* An INCREMENTAL run is started: new(limit), up to the first one().
New(l) ==
    /\ impl = "corpusama"
    /\ pc = "idle"
    /\ runs < MaxRuns
    /\ runs' = runs + 1
    /\ mode' = "INCREMENTAL"
    /\ reqs' = <<>>
    /\ resps' = <<>>
    /\ sleeps' = <<>>
    /\ LET p0 == [parameters EXCEPT !.offset = 0]
       IN  IF ~SortOk(p0)
           THEN /\ parameters' = p0
                /\ Stop("config", "ValueError")
                /\ start' = Started(p0)
                /\ UNCHANGED <<date_changed_vals, limit, call_n, wait>>
           ELSE IF ~hasDb
           THEN /\ parameters' = p0
                /\ Stop("error", "AttributeError")
                /\ start' = Started(p0)
                /\ UNCHANGED <<date_changed_vals, limit, call_n, wait>>
           ELSE LET vals == {r.changed : r \in Rows(db_raw)}
                    p1 == UpdateFilter(p0, original_parameters, vals)
                IN  /\ date_changed_vals' = vals
                    /\ parameters' = p1
                    /\ start' = Started(p1)
                    /\ RunAll(l)
    /\ UNCHANGED <<src, impl, hasDb, n_calls, original_parameters, response_json, hash, raw,
                   db_raw, db_log>>
    /\ UNCHANGED <<svars, bvars, fvars, dvars>>

\* ReliefWeb.one, from its start to the storing of the response: without a
\* database the whole body.
One ==
    /\ pc = "loop"
    /\ IF LimitReached(call_n, limit)
       THEN /\ Stop("limit", "none")
            /\ UNCHANGED <<parameters, call_n, response_json, hash, raw, reqs, resps,
                           sleeps>>
       ELSE IF EnforceQuota(wait)
       THEN /\ Stop("quota", "UserWarning")
            /\ UNCHANGED <<parameters, call_n, response_json, hash, raw, reqs, resps,
                           sleeps>>
       ELSE LET o == Offset(parameters, call_n, response_json)
            IN  IF o.raise
                THEN /\ parameters' = o.parameters
                     /\ Stop("exhausted", "UserWarning")
                     /\ UNCHANGED <<call_n, response_json, hash, raw, reqs, resps,
                                    sleeps>>
                ELSE LET r == Request(o.parameters)
                     IN  /\ parameters' = o.parameters
                         /\ response_json' = r
                         /\ hash' = Hash(o.parameters)
                         /\ reqs' = Append(reqs, o.parameters)
                         /\ resps' = Append(resps, r)
                         /\ UNCHANGED <<halt, raised>>
                         /\ IF ~hasDb
                            THEN /\ raw' = (call_n :> r) @@ raw
                                 /\ sleeps' = Append(sleeps, wait)
                                 /\ call_n' = call_n + 1
                                 /\ pc' = "loop"
                            ELSE /\ pc' = "received"
                                 /\ UNCHANGED <<raw, sleeps, call_n>>
    /\ UNCHANGED <<src, impl, hasDb, n_calls, original_parameters, limit, wait, date_changed_vals,
                   db_raw, db_log, mode, start, runs>>
    /\ UNCHANGED <<svars, bvars, fvars, dvars>>

\* ReliefWeb.insert, up to the commit of the page's rows into _raw.
InsertRaw ==
    /\ pc = "received"
    /\ LET df == RawRows(response_json, hash)
       IN  IF df # <<>>
           THEN /\ db_raw' = Insert(db_raw, df, "id")
                /\ pc' = "raw_done"
                /\ UNCHANGED <<halt, raised>>
           ELSE /\ Stop("exhausted", "UserWarning")
                /\ UNCHANGED db_raw
    /\ UNCHANGED <<src, impl, hasDb, n_calls, original_parameters, parameters, call_n, limit, wait,
                   response_json, hash, date_changed_vals, raw, db_log, mode, reqs,
                   resps, sleeps, start, runs>>
    /\ UNCHANGED <<svars, bvars, fvars, dvars>>

\* Mutant of InsertLog: the call is not logged.
InsertLogSkipped ==
    /\ pc = "raw_done"
    /\ sleeps' = Append(sleeps, wait)
    /\ call_n' = call_n + 1
    /\ pc' = "loop"
    /\ UNCHANGED <<src, impl, hasDb, n_calls, original_parameters, parameters, limit,
                   wait, response_json, hash, date_changed_vals, raw, db_raw, db_log,
                   mode, halt, raised, reqs, resps, start, runs>>
    /\ UNCHANGED <<svars, bvars, fvars, dvars>>

\* The rest of ReliefWeb.insert (_insert_log and its commit) and of one():
\* _wait and the increment of call_n.
InsertLog ==
    /\ pc = "raw_done"
    /\ db_log' = Insert(db_log, LogRows(hash, parameters, response_json),
                        "api_params_hash")
    /\ sleeps' = Append(sleeps, wait)
    /\ call_n' = call_n + 1
    /\ pc' = "loop"
    /\ UNCHANGED <<src, impl, hasDb, n_calls, original_parameters, parameters, limit, wait,
                   response_json, hash, date_changed_vals, raw, db_raw, mode, halt,
                   raised, reqs, resps, start, runs>>
    /\ UNCHANGED <<svars, bvars, fvars, dvars>>

\* ---------------------------------------------------- crawler (datamgr)
\* datamgr ReliefWeb.run is started.
Run ==
    /\ impl = "datamgr"
    /\ pc = "idle"
    /\ runs < MaxRuns
    /\ runs' = runs + 1
    /\ mode' = "FULL"
    /\ pc' = "for"
    /\ halt' = "none"
    /\ raised' = "none"
    /\ reqs' = <<>>
    /\ resps' = <<>>
    /\ sleeps' = <<>>
    /\ start' = Started(parameters)
    /\ UNCHANGED <<src, impl, hasDb, n_calls, original_parameters, parameters, call_n,
                   limit, wait, response_json, hash, date_changed_vals, raw, db_raw,
                   db_log>>
    /\ UNCHANGED <<svars, bvars, fvars, dvars>>

\* One pass of the for loop of datamgr ReliefWeb.run, from range(n_calls) to
\* the storing of the response: without a database the whole pass.  Each
\* pass that ends makes one request, so the next index is Len(reqs).
RunCall ==
    /\ pc = "for"
    /\ LET n == Len(reqs)
       IN  IF n >= n_calls
           THEN /\ Stop("limit", "none")
                /\ UNCHANGED <<parameters, call_n, response_json, hash, raw, reqs,
                               resps, sleeps>>
           ELSE IF EnforceQuota(wait)
           THEN /\ call_n' = n
                /\ Stop("quota", "UserWarning")
                /\ UNCHANGED <<parameters, response_json, hash, raw, reqs, resps,
                               sleeps>>
           ELSE LET o == Offset(parameters, n, response_json)
                IN  IF o.raise
                    THEN /\ call_n' = n
                         /\ parameters' = o.parameters
                         /\ Stop("exhausted", "UserWarning")
                         /\ UNCHANGED <<response_json, hash, raw, reqs, resps, sleeps>>
                    ELSE LET r == Request(o.parameters)
                         IN  /\ call_n' = n
                             /\ parameters' = o.parameters
                             /\ response_json' = r
                             /\ hash' = Hash(o.parameters)
                             /\ reqs' = Append(reqs, o.parameters)
                             /\ resps' = Append(resps, r)
                             /\ UNCHANGED <<halt, raised>>
                             /\ IF ~hasDb
                                THEN /\ raw' = (n :> r) @@ raw
                                     /\ sleeps' = Append(sleeps, wait)
                                     /\ pc' = "for"
                                ELSE /\ pc' = "fetched"
                                     /\ UNCHANGED <<raw, sleeps>>
    /\ UNCHANGED <<src, impl, hasDb, n_calls, original_parameters, limit, wait,
                   date_changed_vals, db_raw, db_log, mode, start, runs>>
    /\ UNCHANGED <<svars, bvars, fvars, dvars>>

\* Mutant of RunInsertRaw: the error undoes the pages the run had stored.
RunInsertRawRollback ==
    /\ pc = "fetched"
    /\ LET df == RawRows(response_json, hash)
       IN  IF df # <<>>
           THEN /\ db_raw' = Insert(db_raw, df, "id")
                /\ pc' = "stored"
                /\ UNCHANGED <<halt, raised>>
           ELSE /\ Stop("error", "KeyError")
                /\ db_raw' = start.raw
    /\ UNCHANGED <<src, impl, hasDb, n_calls, original_parameters, parameters, call_n,
                   limit, wait, response_json, hash, date_changed_vals, raw, db_log,
                   mode, reqs, resps, sleeps, start, runs>>
    /\ UNCHANGED <<svars, bvars, fvars, dvars>>

\* datamgr ReliefWeb.insert, up to the commit of the page's rows into _raw.
\* df.drop(["id"], errors=False) raises KeyError on the frame of a page
\* without records, which has no column id.
RunInsertRaw ==
    /\ pc = "fetched"
    /\ LET df == RawRows(response_json, hash)
       IN  IF df # <<>>
           THEN /\ db_raw' = Insert(db_raw, df, "id")
                /\ pc' = "stored"
                /\ UNCHANGED <<halt, raised>>
           ELSE /\ Stop("error", "KeyError")
                /\ UNCHANGED db_raw
    /\ UNCHANGED <<src, impl, hasDb, n_calls, original_parameters, parameters, call_n,
                   limit, wait, response_json, hash, date_changed_vals, raw, db_log,
                   mode, reqs, resps, sleeps, start, runs>>
    /\ UNCHANGED <<svars, bvars, fvars, dvars>>

\* The rest of datamgr ReliefWeb.insert (_insert_log and its commit) and of
\* the pass: _wait.
RunInsertLog ==
    /\ pc = "stored"
    /\ db_log' = Insert(db_log, LogRows(hash, parameters, response_json),
                        "api_params_hash")
    /\ sleeps' = Append(sleeps, wait)
    /\ pc' = "for"
    /\ UNCHANGED <<src, impl, hasDb, n_calls, original_parameters, parameters, call_n,
                   limit, wait, response_json, hash, date_changed_vals, raw, db_raw,
                   mode, halt, raised, reqs, resps, start, runs>>
    /\ UNCHANGED <<svars, bvars, fvars, dvars>>

\* ReliefWeb.__init__ again: a new crawler object on the same input and the
\* same database.
Construct ==
    /\ pc = "idle"
    /\ runs > 0
    /\ parameters' = original_parameters
    /\ call_n' = Unset
    /\ limit' = Unset
    /\ wait' = IF impl = "datamgr" THEN SetWait(n_calls) ELSE Unset
    /\ response_json' = NoResponse
    /\ hash' = NoHash
    /\ date_changed_vals' = {}
    /\ raw' = <<>>
    /\ mode' = "none"
    /\ halt' = "none"
    /\ raised' = "none"
    /\ reqs' = <<>>
    /\ resps' = <<>>
    /\ sleeps' = <<>>
    /\ start' = Started(original_parameters)
    /\ UNCHANGED <<src, impl, hasDb, n_calls, original_parameters, db_raw, db_log, pc, runs>>
    /\ UNCHANGED <<svars, bvars, fvars, dvars>>

Next ==
    \/ \E l \in Limits : All(l)
    \/ \E l \in Limits : New(l)
    \/ One
    \/ InsertRaw
    \/ InsertLog
    \/ Run
    \/ RunCall
    \/ RunInsertRaw
    \/ RunInsertLog
    \/ Construct

Spec == Init /\ [][Next]_vars

TypeOK ==
    /\ pc \in {"idle", "loop", "received", "raw_done", "for", "fetched", "stored",
              "batch", "tagged"}
    /\ mode \in {"none", "FULL", "INCREMENTAL"}
    /\ halt \in {"none", "limit", "quota", "exhausted", "config", "error"}
    /\ raised \in {"none", "UserWarning", "ValueError", "AttributeError", "KeyError"}
    /\ parameters.offset \in Nat
    /\ Len(reqs) = Len(resps)

\* --------------------------------------------------------- storage (writes)
\* One program writes to the database: a crawler of one of three generations
\* (impl "rwapi" is rwapi/manager.py, whose tables records and call_log are
\* named _raw and _log here), or the annotation pipeline of
\* corpusama/corpus/vertical.py (impl "corpus").
Params ==
    {[offset |-> o, limit |-> 1, filter |-> NoFilter, sort |-> SortAsc] : o \in {0, 1}}

Responses == {[count |-> n, totalCount |-> 2, data |-> <<>>] : n \in {1, 2}}

\* json.dumps(parameters)
JsonDumps(p) == [json |-> p]

\* Manager._insert_log: the record of one call, keyed by its parameters.
CallLogRows(p, resp) ==
    <<[api_params_hash |-> JsonDumps(p), api_params |-> p, count |-> resp.count,
       total_count |-> resp.totalCount]>>

VertContents == {"", "v", "w"}

\* frames of annotated documents, as convert.docbundle_to_df makes them
VertFrames ==
    UNION {[1..n -> [id : Ids, vert_date : {"t"}, vert : VertContents]] : n \in 1..2}

\* Mutant of DropEmptyVert: every row is kept.
DropNothing(df) == df

\* drop_empty_vert: the rows with content.
DropEmptyVert(df) == SelectSeq(df, LAMBDA r : Len(r.vert) > 0)

\* No crawler object is at work.
NoCrawler ==
    /\ src = <<>>
    /\ hasDb = TRUE
    /\ original_parameters = [offset |-> 0, limit |-> 1, filter |-> NoFilter, sort |-> SortAsc]
    /\ parameters = original_parameters
    /\ call_n = Unset
    /\ limit = Unset
    /\ n_calls = Unset
    /\ wait = Unset
    /\ response_json = NoResponse
    /\ hash = NoHash
    /\ date_changed_vals = {}
    /\ raw = <<>>
    /\ mode = "none"
    /\ halt = "none"
    /\ reqs = <<>>
    /\ resps = <<>>
    /\ sleeps = <<>>
    /\ start = [offset |-> 0, raw |-> <<>>, log |-> <<>>]
    /\ runs = 0

\* No annotation run was made.
NoBatch ==
    /\ vert_size = Unset
    /\ vert_run = Unset
    /\ vert_runs = Unset
    /\ vert_start = [now |-> 0, raw |-> <<>>, vert |-> <<>>]
    /\ tagged = <<>>
    /\ wrote = <<>>

NoFormat ==
    /\ bundle = <<>>
    /\ formatted = <<>>
    /\ warnings = <<>>

NoFiles ==
    /\ files = {}
    /\ del_files = {}
    /\ del_start = [ran |-> FALSE]

InitStore ==
    /\ impl \in {"corpusama", "datamgr", "rwapi", "corpus"}
    /\ NoCrawler
    /\ NoBatch
    /\ NoFormat
    /\ NoFiles
    /\ db_raw = <<>>
    /\ db_log = <<>>
    /\ db_vert = <<>>
    /\ pc = "idle"
    /\ raised = "none"
    /\ tables = BaseTables
    /\ now = 0
    /\ ops = NoOp
    /\ last_rows = NoRows

\* ReliefWeb.insert (corpusama, datamgr) and Manager._prepare_records with
\* _insert_records, up to the commit of the page's rows, as a function of the
\* schema t and the table: h is the hash of the call, recs the records of its
\* response.  given is what the page says of each id.
Page(t, table, h, recs) ==
    LET df0 == WithColumn(Frame(recs), "api_params_hash", h)
    IN  IF impl = "corpusama"
        THEN LET cols == AddMissingColumns(t._raw, df0.columns)
                 df == FillMissing(df0, cols)
             IN  IF df.rows # <<>>
                 THEN [tables |-> [t EXCEPT !._raw = cols],
                       db_raw |-> DatabaseInsert(ExtendRows(table, cols), df, cols, "id"),
                       raised |-> "none"]
                 ELSE [tables |-> [t EXCEPT !._raw = cols], db_raw |-> table,
                       raised |-> "UserWarning"]
        ELSE IF recs = <<>>
        THEN [tables |-> t, db_raw |-> table, raised |-> "KeyError"]
        ELSE [tables |-> t,
              db_raw |-> DatabaseInsert(table, FillMissing(df0, t._raw), t._raw, "id"),
              raised |-> "none"]

\* A crawler stores the page of a response.
StorePage(h, recs) ==
    /\ pc = "idle"
    /\ impl \in {"corpusama", "datamgr", "rwapi"}
    /\ LET once == Page(tables, db_raw, h, recs)
           twice == Page(once.tables, once.db_raw, h, recs)
       IN  /\ tables' = once.tables
           /\ db_raw' = once.db_raw
           /\ raised' = once.raised
           /\ ops' = [table |-> "_raw", idempotent |-> twice = once,
                      replaced |-> Replaces(db_raw, recs, "id")]
    /\ last_rows' = [last_rows EXCEPT !._raw = Latest(@, recs, "id")]
    /\ UNCHANGED <<cvars, impl, db_log, pc, now, bvars, fvars, dvars>>

\* ReliefWeb._insert_log and Manager._insert_log: the record of the call with
\* the parameters p and the response resp, and its commit.
Call(table, p, resp) ==
    IF impl = "rwapi"
    THEN Insert(table, CallLogRows(p, resp), "api_params_hash")
    ELSE Insert(table, LogRows(Hash(p), p, resp), "api_params_hash")

\* A crawler stores the record of a call.
StoreCall(p, resp) ==
    /\ pc = "idle"
    /\ impl \in {"corpusama", "datamgr", "rwapi"}
    /\ db_log' = Call(db_log, p, resp)
    /\ ops' = [table |-> "_log",
               idempotent |-> Call(Call(db_log, p, resp), p, resp) = Call(db_log, p, resp),
               replaced |-> \E i \in 1..Len(db_log) : db_log[i].api_params = p]
    /\ last_rows' = [last_rows EXCEPT !._log =
                        Latest(@, <<[api_params |-> p, count |-> resp.count]>>,
                               "api_params")]
    /\ raised' = "none"
    /\ UNCHANGED <<cvars, impl, db_raw, pc, tables, now, bvars, fvars, dvars>>

\* The end of batch_run: drop_empty_vert and db.insert(df, "_vert").
Vert(table, df) == Insert(table, DropEmptyVert(df), "id")

\* The annotation pipeline stores a frame of annotated documents.
StoreVert(df) ==
    /\ pc = "idle"
    /\ impl = "corpus"
    /\ db_vert' = Vert(db_vert, df)
    /\ ops' = [table |-> "_vert",
               idempotent |-> Vert(Vert(db_vert, df), df) = Vert(db_vert, df),
               replaced |-> Replaces(db_vert, DropEmptyVert(df), "id")]
    /\ last_rows' = [last_rows EXCEPT !._vert = Latest(@, DropEmptyVert(df), "id")]
    /\ raised' = "none"
    /\ UNCHANGED <<cvars, impl, db_raw, db_log, pc, tables, now, vert_size, vert_run,
                   vert_runs, vert_start, tagged, wrote, fvars, dvars>>

NextStore ==
    \/ \E h \in Hashes, recs \in Pages : StorePage(h, recs)
    \/ \E p \in Params, resp \in Responses : StoreCall(p, resp)
    \/ \E df \in VertFrames : StoreVert(df)

SpecStore == InitStore /\ [][NextStore]_vars

\* ------------------------------------------- annotation (corpus/vertical.py)
MaxDocs == 2       \* records of _raw
MaxNow == 2        \* the clock runs from 1 to MaxNow
MaxSize == 2       \* make_vertical(size) with size in 1..MaxSize
MaxBatches == 2    \* make_vertical(runs) with runs in 0..MaxBatches, 0: no limit
MaxSents == 2      \* sentences of a document given to stanza_to_vert
MaxWords == 2      \* words of a sentence

\* self.tagset: the lempos suffix of each tag
tagset == [NN |-> [lpos |-> "-n"], NNS |-> [lpos |-> "-n"], VB |-> [lpos |-> "-v"]]

Word(t, x, l) == [text |-> t, xpos |-> x, lemma |-> l]

\* The source texts: body_html is one of these or NULL.  "empty" holds no
\* text (images only), "bad" a word whose tag is not in the tagset.
Texts == {"ok", "empty", "bad"}

\* _stanza.run: the document the tagger makes of a text, sentences of words.
Stanza(text) ==
    CASE text = "ok" -> <<<<Word("Cats", "NN", "cat"), Word("ran", "VB", "run")>>,
                          <<Word("Ok", "NN", PyNone)>>>>
      [] text = "empty" -> <<>>
      [] text = "bad" -> <<<<Word("Cats", "NN", "cat")>>, <<Word("+", "SYM", "+")>>>>

\* _stanza.fix_lemma: the lemma, or the word itself when the tagger gave none.
FixLemma(w) == IF w.lemma = PyNone THEN w.text ELSE w.lemma

\* "".join(list)
RECURSIVE Join(_)
Join(list) == IF list = <<>> THEN "" ELSE list[1] \o Join(Tail(list))

\* Mutant of MakeLines: the lemma without the suffix of the tag.
MakeLinesNoSuffix(sent) ==
    [i \in 1..Len(sent) |->
        sent[i].text \o "\t" \o sent[i].xpos \o "\t" \o FixLemma(sent[i]) \o "\n"]

\* stanza_to_vert.make_lines
MakeLines(sent) ==
    [i \in 1..Len(sent) |->
        sent[i].text \o "\t" \o sent[i].xpos \o "\t" \o FixLemma(sent[i])
            \o tagset[sent[i].xpos].lpos \o "\n"]

\* stanza_to_vert.make_sentence
MakeSentence(sent) == Join(<<"<s>\n">> \o MakeLines(sent) \o <<"</s>\n">>)

\* stanza_to_vert.make_docs, of one document
MakeDoc(doc) == Join([i \in 1..Len(doc) |-> MakeSentence(doc[i])])

\* tagset[w.xpos] raises KeyError for a tag the tagset lacks.
TagsKnown(doc) ==
    \A i \in 1..Len(doc) : \A j \in 1..Len(doc[i]) : doc[i][j].xpos \in DOMAIN tagset
\* Mutant of LemmatizeFail: nothing is logged.
LemmatizeFailSilent(id, sent) == <<>>

\* stanza_to_vert.lemmatize_fail: a warning with the record id and the text of
\* each word of the sentence that has no lemma.
LemmatizeFail(id, sent) ==
    LET fails == SelectSeq(sent, LAMBDA w : w.lemma = PyNone)
    IN  [i \in 1..Len(fails) |-> <<id, fails[i].text>>]

\* The sentences of a bundle in the order make_docs visits them, each with
\* the id of its record.
RECURSIVE Sentences(_)
Sentences(b) ==
    IF b = <<>> THEN <<>>
    ELSE [i \in 1..Len(b[1].doc) |-> [id |-> b[1].id, sent |-> b[1].doc[i]]]
             \o Sentences(Tail(b))

\* What make_sentence logs over these sentences: it logs, then makes the
\* lines, and the KeyError of an unknown tag ends the formatting there.
RECURSIVE Logged(_)
Logged(ss) ==
    IF ss = <<>> THEN <<>>
    ELSE LemmatizeFail(ss[1].id, ss[1].sent)
             \o (IF TagsKnown(<<ss[1].sent>>) THEN Logged(Tail(ss)) ELSE <<>>)

\* stanza_to_vert: the documents of the bundle replaced by their vertical
\* text, or KeyError; and the warnings logged on the way.
StanzaToVert(b) ==
    LET known == \A i \in 1..Len(b) : TagsKnown(b[i].doc)
    IN  [raise |-> ~known,
         doc |-> IF known THEN [i \in 1..Len(b) |-> MakeDoc(b[i].doc)] ELSE <<>>,
         warnings |-> Logged(Sentences(b))]

\* Mutant of FetchBatch: the offset is ignored, every fetch is the first window.
FetchBatchFirst(run, size, rows) == SubSeq(rows, 1, Min(size, Len(rows)))

\* Database.fetch_batch: the rows run*size+1 .. run*size+size of the query.
FetchBatch(run, size, rows) ==
    SubSeq(rows, run * size + 1, Min(run * size + size, Len(rows)))
\* Mutant of LimitRuns: the run goes on for one batch more.
LimitRunsLate(run, rns) == ~(rns > 0 /\ run > rns)

\* util.limit_runs: whether a further batch may be run; runs = 0 is no limit.
LimitRuns(run, rns) == ~(rns > 0 /\ run >= rns)

\* Mutant of OutdatedVert: a document as old as its record is out of date too.
OutdatedVertOrSame(raw_table, vert_table) ==
    {v.id : v \in {v \in Rows(vert_table) :
                      \E r \in Rows(raw_table) : r.id = v.id /\ r.changed >= v.vert_date}}

\* outdated_vert: the ids of _vert whose record changed after vert_date.
OutdatedVert(raw_table, vert_table) ==
    {v.id : v \in {v \in Rows(vert_table) :
                      \E r \in Rows(raw_table) : r.id = v.id /\ r.changed > v.vert_date}}

\* Mutant of Due: nothing is skipped.
DueAll(window, raw_table, vert_table) == window

\* batch, lines 74-78: the rows of the window that are not annotated or are
\* out of date.
Due(window, raw_table, vert_table) ==
    LET changed == OutdatedVert(raw_table, vert_table)
        exists == {v.id : v \in Rows(vert_table)} \ changed
    IN  SelectSeq(window, LAMBDA x : x.id \notin exists)

\* The ids of rows.
IdsOf(rows) == [i \in 1..Len(rows) |-> rows[i].id]

\* The tables _raw can hold: records 1..n changed at time 1.
RawTables ==
    UNION {[1..n -> [id : 1..MaxDocs, changed : {1}, body_html : Texts \cup {Null}]]
           : n \in 0..MaxDocs}

InitVert ==
    /\ impl = "corpus"
    /\ NoCrawler
    /\ NoBatch
    /\ NoFormat
    /\ NoFiles
    /\ db_raw \in {t \in RawTables : \A i \in 1..Len(t) : t[i].id = i}
    /\ db_log = <<>>
    /\ db_vert = <<>>
    /\ pc = "idle"
    /\ raised = "none"
    /\ tables = BaseTables
    /\ now = 1
    /\ ops = NoOp
    /\ last_rows = NoRows

\* make_vertical(size, runs), lines 107-110.
MakeVertical(size, rns) ==
    /\ pc = "idle"
    /\ vert_size' = size
    /\ vert_run' = 0
    /\ vert_runs' = rns
    /\ vert_start' = [now |-> now, raw |-> db_raw, vert |-> db_vert]
    /\ tagged' = <<>>
    /\ wrote' = <<>>
    /\ raised' = "none"
    /\ pc' = "batch"
    /\ warnings' = <<>>
    /\ UNCHANGED <<cvars, impl, db_raw, db_log, svars, db_vert, bundle, formatted, dvars>>

\* Mutant of BatchRun: a document whose tags are unknown is left out and the
\* others are stored.
BatchRunPartial(batch) ==
    LET good == SelectSeq(batch, LAMBDA r : TagsKnown(Stanza(r.body_html)))
    IN  [raise |-> FALSE,
         df |-> DropEmptyVert([i \in 1..Len(good) |->
                    [id |-> good[i].id, vert_date |-> now,
                     vert |-> MakeDoc(Stanza(good[i].body_html))]]),
         warnings |-> <<>>]

\* batch_run: the batch is tagged, formatted and stored with one commit; a tag
\* that the tagset lacks raises KeyError before anything is stored.
BatchRun(batch) ==
    LET stan == [i \in 1..Len(batch) |->
                    [id |-> batch[i].id, doc |-> Stanza(batch[i].body_html)]]
        vert == StanzaToVert(stan)
    IN  IF vert.raise
        THEN [raise |-> TRUE, df |-> <<>>, warnings |-> vert.warnings]
        ELSE [raise |-> FALSE,
              df |-> DropEmptyVert([i \in 1..Len(batch) |->
                         [id |-> batch[i].id, vert_date |-> now,
                          vert |-> vert.doc[i]]]),
              warnings |-> vert.warnings]

\* Mutant of InsertVert: a plain INSERT, the old row of an id stays.
InsertVertAppend(table, df) == table \o df

\* batch_run's self.db.insert(df, "_vert"): one INSERT OR REPLACE of the
\* frame, keyed by id, and one commit.
InsertVert(table, df) == Insert(table, df, "id")

\* One pass of batch(), which decorator.while_loop repeats while it returns
\* True.
Batch ==
    /\ pc = "batch"
    /\ LET texts == SelectSeq(db_raw, LAMBDA r : r.body_html # Null)
           window == FetchBatch(vert_run, vert_size, texts)
           batch == Due(window, db_raw, db_vert)
           run == BatchRun(batch)
       IN  IF window = <<>>
           THEN /\ pc' = "idle"
                /\ UNCHANGED <<db_vert, vert_run, tagged, wrote, raised, warnings>>
           ELSE IF batch = <<>>
           THEN /\ vert_run' = vert_run + 1
                /\ UNCHANGED <<pc, db_vert, tagged, wrote, raised, warnings>>
           ELSE IF run.raise
           THEN /\ tagged' = Append(tagged, IdsOf(batch))
                /\ warnings' = warnings \o run.warnings
                /\ raised' = "KeyError"
                /\ pc' = "idle"
                /\ UNCHANGED <<db_vert, vert_run, wrote>>
           ELSE /\ tagged' = Append(tagged, IdsOf(batch))
                /\ warnings' = warnings \o run.warnings
                /\ db_vert' = InsertVert(db_vert, run.df)
                /\ wrote' = Append(wrote, IdsOf(run.df))
                /\ vert_run' = vert_run + 1
                /\ pc' = IF LimitRuns(vert_run + 1, vert_runs) THEN "batch" ELSE "idle"
                /\ UNCHANGED raised
    /\ UNCHANGED <<cvars, impl, db_raw, db_log, svars, vert_size, vert_runs, vert_start,
                   bundle, formatted, dvars>>

\* A crawler stores, at a later time, a new version of the record id.
RawChange(id, text) ==
    /\ pc = "idle"
    /\ now < MaxNow
    /\ \E r \in Rows(db_raw) : r.id = id
    /\ now' = now + 1
    /\ db_raw' = Insert(db_raw, <<[id |-> id, changed |-> now + 1, body_html |-> text]>>, "id")
    /\ UNCHANGED <<cvars, impl, db_log, pc, raised, tables, ops, last_rows, bvars, fvars, dvars>>

NextVert ==
    \/ \E size \in 1..MaxSize, rns \in 0..MaxBatches : MakeVertical(size, rns)
    \/ Batch
    \/ \E id \in 1..MaxDocs, text \in Texts \cup {Null} : RawChange(id, text)

SpecVert == InitVert /\ [][NextVert]_vars

\* ------------------------------------------- formatting (stanza_to_vert)
\* The words the tagger may give: with a lemma, without one, and with a tag
\* that the tagset lacks.
Words == {Word("Cats", "NNS", "cat"), Word("Ok", "NN", PyNone), Word("+", "SYM", "+")}

Sents == UNION {[1..n -> Words] : n \in 0..MaxWords}

Docs == UNION {[1..n -> Sents] : n \in 0..MaxSents}

\* A bundle of one tagged document is ready to be formatted.
InitFormat ==
    /\ impl = "corpus"
    /\ NoCrawler
    /\ NoBatch
    /\ db_raw = <<>>
    /\ db_log = <<>>
    /\ db_vert = <<>>
    /\ pc = "tagged"
    /\ raised = "none"
    /\ tables = BaseTables
    /\ now = 1
    /\ ops = NoOp
    /\ last_rows = NoRows
    /\ bundle \in {<<[id |-> i, doc |-> d]>> : i \in 1..MaxDocs, d \in Docs}
    /\ formatted = <<>>
    /\ warnings = <<>>
    /\ NoFiles

\* stanza_to_vert(bundle, tagset)
Format ==
    /\ pc = "tagged"
    /\ LET vert == StanzaToVert(bundle)
       IN  /\ formatted' = vert.doc
           /\ warnings' = vert.warnings
           /\ raised' = IF vert.raise THEN "KeyError" ELSE "none"
    /\ pc' = "idle"
    /\ UNCHANGED <<cvars, impl, db_raw, db_log, svars, bvars, bundle, dvars>>

NextFormat == Format

SpecFormat == InitFormat /\ [][NextFormat]_vars

\* ------------------------------------- stored files (rwapi/manager.py)
\* The table excludes: the name of a list and the words of its text
\* (x.split()).
ExcludeLists == [languages |-> <<"spanish", "french">>, kinds |-> <<"summary">>]

\* names: None (every list), the name of one list (a str), or a list of names.
NamesArgs ==
    {[type |-> "None"], [type |-> "str", value |-> "languages"],
     [type |-> "list", value |-> <<"kinds">>],
     [type |-> "list", value |-> <<"languages", "kinds">>]}

\* Stems of file names, cut at the underscores.
Stems == {<<"report">>, <<"report", "Spanish">>, <<"summary", "report">>, <<"spanishreport">>}

Suffixes == {".pdf", ".txt"}

StoredFiles == [stem : Stems, suffix : Suffixes]

\* str.lower(), of a word
Lower(w) == IF w = "Spanish" THEN "spanish" ELSE w

\* get_excludes: the names of the lists that are selected.
GetExcludes(names) ==
    IF names.type = "None" THEN DOMAIN ExcludeLists
    ELSE IF names.type = "str" THEN {names.value} \cap DOMAIN ExcludeLists
    ELSE Range(names.value) \cap DOMAIN ExcludeLists

\* The words of the selected lists.
Excludes(names) == UNION {Range(ExcludeLists[n]) : n \in GetExcludes(names)}

\* A word of x.stem.lower().split("_") is among the excludes.
Delete(x, excludes) == \E i \in 1..Len(x.stem) : Lower(x.stem[i]) \in excludes

\* x.with_suffix(".txt")
WithSuffixTxt(x) == [x EXCEPT !.suffix = ".txt"]

\* The files the loop unlinks: if not dry_run, x and its .txt companion, of
\* every x of stored_pdfs.
Unlinked(stored, excludes, dry_run) ==
    IF dry_run THEN {} ELSE UNION {{x, WithSuffixTxt(x)} : x \in stored}

\* Files are stored under the directory.
InitFiles ==
    /\ impl = "rwapi"
    /\ NoCrawler
    /\ NoBatch
    /\ NoFormat
    /\ db_raw = <<>>
    /\ db_log = <<>>
    /\ db_vert = <<>>
    /\ pc = "idle"
    /\ raised = "none"
    /\ tables = BaseTables
    /\ now = 0
    /\ ops = NoOp
    /\ last_rows = NoRows
    /\ files \in SUBSET StoredFiles
    /\ del_files = {}
    /\ del_start = [ran |-> FALSE]

\* Manager.del_exclude_files(names, dir, dry_run), on an existing dir.
DelExcludeFiles(names, dry_run) ==
    /\ pc = "idle"
    /\ impl = "rwapi"
    /\ LET stored_pdfs == files
           excludes == Excludes(names)
       IN  /\ del_files' = {x \in stored_pdfs : Delete(x, excludes)}
           /\ files' = files \ Unlinked(stored_pdfs, excludes, dry_run)
           /\ del_start' = [ran |-> TRUE, files |-> files, names |-> names,
                            dry_run |-> dry_run]
    /\ UNCHANGED <<cvars, impl, db_raw, db_log, pc, raised, svars, bvars, fvars>>

NextFiles == \E names \in NamesArgs, dry_run \in BOOLEAN : DelExcludeFiles(names, dry_run)

SpecFiles == InitFiles /\ [][NextFiles]_vars

\* ------------------------------------------------------------------ claims
InRun == mode \in {"FULL", "INCREMENTAL"}

Ended == InRun /\ pc = "idle"

\* The run got as far as all(): new() did not raise before it.
Looped == InRun /\ halt \notin {"config", "error"}

Last(s) == s[Len(s)]

Front(s) == SubSeq(s, 1, Len(s) - 1)

Corpusama == impl = "corpusama"

\* The calls the run may make: the limit of all()/new(), the n_calls of run().
MaxCalls == IF impl = "datamgr" THEN n_calls ELSE limit

\* Exception classes that are errors; UserWarning is a Warning, the crawler's
\* signal that the run is over.
ErrorClasses == {"ValueError", "AttributeError", "KeyError"}

\* C1 as stated: at the end of a run that started at offset 0 and received the
\* pages c1..cN, N >= 1, the offset is c1+...+cN.
C1_FinalOffsetIsSumOfAll ==
    (Ended /\ start.offset = 0 /\ Len(resps) >= 1)
        => parameters.offset = SumCounts(resps)

\* C1 amended: during and at the end of a run the offset is the offset of the
\* run's first request plus c1+...+c(N-1): the count of the last page received
\* is added only when a further request is prepared.
C1_OffsetLagsLastPage ==
    InRun =>
        parameters.offset =
            start.offset + (IF resps = <<>> THEN 0 ELSE SumCounts(Front(resps)))

C1_Witness ==
    /\ Ended
    /\ halt = "limit"
    /\ Len(resps) >= 2
    /\ \A i \in 1..Len(resps) : resps[i].count > 0

ZeroPageReceived == resps # <<>> /\ Last(resps).count = 0

C3_EveryCallLogged ==
    (Corpusama /\ Ended /\ hasDb /\ halt = "exhausted")
        => /\ \A i \in 1..Len(reqs) :
                  \E row \in Rows(db_log) : row.api_params_hash = Hash(reqs[i])
           /\ \A i \in 1..Len(resps) : \A j \in 1..Len(resps[i].data) :
                  \E row \in Rows(db_raw) : row.id = resps[i].data[j].id
           /\ (/\ start.raw = <<>>
               /\ start.log = <<>>
               /\ Len(resps) = 2
               /\ resps[1].count = 2
               /\ resps[2].count = 0)
                  => /\ Len(db_raw) = 2
                     /\ Len(db_log) = 2
                     /\ raised \notin ErrorClasses

\* The changed timestamps in _raw when the run started.
StartT == {r.changed : r \in Rows(start.raw)}

DateCondition(t) == [field |-> "date.changed", value |-> [from |-> t]]

IncrementalOnStored == mode = "INCREMENTAL" /\ hasDb /\ StartT # {}

C5_FullStartsAfresh ==
    (Corpusama /\ mode = "FULL" /\ reqs # <<>>)
        => /\ reqs[1].offset = 0
           /\ reqs[1].filter = original_parameters.filter

\* The request i of a run from offset 0 with the caller's parameters unmodified.
PlainRequest(i) ==
    [original_parameters EXCEPT !.offset = SumCounts(SubSeq(resps, 1, i - 1))]

\* C6: a run on an empty database sends the same requests whether it is
\* INCREMENTAL or FULL: request i is the caller's parameters at the offset
\* c1+...+c(i-1), it ends at limit calls or at the page of count 0, and _raw
\* ends up holding the records of the pages received.
C6_IncrementalOnEmptyIsFull ==
    (Corpusama /\ Looped /\ hasDb /\ start.raw = <<>>)
        => /\ \A i \in 1..Len(reqs) : reqs[i] = PlainRequest(i)
           /\ (Ended /\ halt = "limit") => Len(reqs) = limit
           /\ (Ended /\ halt = "exhausted") => ZeroPageReceived
           /\ pc \in {"loop", "idle"} =>
                  {r.id : r \in Rows(db_raw)} =
                      UNION {{resps[i].data[j].id : j \in 1..Len(resps[i].data)}
                             : i \in 1..Len(resps)}

C6_Witness ==
    /\ mode = "INCREMENTAL"
    /\ hasDb
    /\ start.raw = <<>>
    /\ Ended
    /\ Len(reqs) >= 2
    /\ original_parameters.filter # NoFilter
    /\ db_raw # <<>>

\* C7: an INCREMENTAL run whose sort is not exactly date.changed ascending ends
\* at once with ValueError: no request, and the tables as they were.
C7_BadSortFailsFast ==
    (mode = "INCREMENTAL" /\ original_parameters.sort # SortAsc)
        => /\ pc = "idle"
           /\ halt = "config"
           /\ raised = "ValueError"
           /\ reqs = <<>>
           /\ db_raw = start.raw
           /\ db_log = start.log

C7_Witness ==
    /\ mode = "INCREMENTAL"
    /\ halt = "config"
    /\ original_parameters.sort = <<"date.changed:desc">>
    /\ db_raw # <<>>

\* C8: when a request is issued every earlier page of the run is stored, its
\* rows in _raw and its call in _log (without a database: in self.raw), and
\* the offsets of the run's requests strictly increase.
C8_StoredBeforeNextRequest ==
    /\ \A i \in 1..(Len(reqs) - 1) :
           IF hasDb
           THEN /\ \A j \in 1..Len(resps[i].data) :
                       RawRows(resps[i], Hash(reqs[i]))[j] \in Rows(db_raw)
                /\ \E row \in Rows(db_log) :
                       /\ row.api_params_hash = Hash(reqs[i])
                       /\ row.count = resps[i].count
           ELSE raw[i - 1] = resps[i]
    /\ \A i \in 1..Len(reqs), j \in 1..Len(reqs) :
           i < j => reqs[i].offset < reqs[j].offset

C8_Witness ==
    /\ hasDb
    /\ pc = "received"
    /\ Len(reqs) = 3
    /\ resps[3].count > 0

\* C9: a run allowed m calls (limit, n_calls) issues at most m requests, stops
\* as soon as m calls are made, and issues none when m is 0.
C9_AtMostLimitCalls ==
    Looped =>
        /\ Len(reqs) <= MaxCalls
        /\ call_n <= MaxCalls
        /\ (Ended /\ halt = "limit") => Len(reqs) = MaxCalls
        /\ (pc \in {"loop", "for"} /\ Len(reqs) = MaxCalls) =>
               ENABLED ((One \/ RunCall) /\ pc' = "idle" /\ halt' = "limit")
        /\ MaxCalls = 0 => reqs = <<>>

C9_Witness ==
    /\ Ended
    /\ halt = "limit"
    /\ MaxCalls = 2
    /\ Len(reqs) = 2
    /\ Last(resps).count > 0

StoredAs(row, rec) ==
    \A c \in DOMAIN row :
        c # "api_params_hash" =>
            row[c] = (IF c \in DOMAIN rec THEN rec[c] ELSE Null)

\* In a table no key is held twice, the keys held are those ever written, and
\* RowOk holds of each key's row and the row last written for the key.
LatestOnly(table, key, given, RowOk(_, _)) ==
    /\ \A i \in 1..Len(table), j \in 1..Len(table) : i < j => table[i][key] # table[j][key]
    /\ Keys(table, key) = DOMAIN given
    /\ \A i \in 1..Len(table) : RowOk(table[i], given[table[i][key]])

\* C11: after any sequence of writes to _raw, _log and _vert none of the tables
\* holds two rows of one key (id, the parameters' hash, id), and the row a key
\* holds is the one given by the last write for the key.
C11_LatestWriteWins ==
    /\ LatestOnly(db_raw, "id", last_rows._raw, StoredAs)
    /\ LatestOnly(db_log, "api_params", last_rows._log,
                  LAMBDA row, w : row.count = w.count)
    /\ LatestOnly(db_vert, "id", last_rows._vert, LAMBDA row, w : row = w)

C11_Witness ==
    /\ ops.table = "_raw"
    /\ ops.replaced
    /\ Len(db_raw) = 2
    /\ Len(db_log) = 2
    /\ \E i \in 1..2 : db_raw[i].title = "y"

\* C12: storing a batch a second time changes nothing: every write leaves the
\* database (rows, their order and the columns) in the state in which the
\* same write, made again at once, leaves it.
C12_UpsertIdempotent == ops.idempotent

C12_Witness ==
    /\ ops.table = "_raw"
    /\ ops.idempotent
    /\ ops.replaced
    /\ Len(db_raw) = 2
    /\ "lang" \in Range(tables._raw)
    /\ \E i \in 1..2 : db_raw[i].lang = Null

\* C13 as stated: after a page is stored every field name of its records is a
\* column of _raw and the row of each record holds the record's value for it;
\* a field unknown before is added as a column that is NULL in the rows that
\* lack it, and no column is ever dropped.
C13_FieldsBecomeColumns ==
    /\ \A i \in 1..Len(BaseTables._raw) : BaseTables._raw[i] \in Range(tables._raw)
    /\ \A k \in DOMAIN last_rows._raw : \A f \in DOMAIN last_rows._raw[k] :
           /\ f \in Range(tables._raw)
           /\ \A i \in 1..Len(db_raw) :
                  db_raw[i].id = k =>
                      (f \in DOMAIN db_raw[i] /\ db_raw[i][f] = last_rows._raw[k][f])
    /\ \A i \in 1..Len(db_raw) : DOMAIN db_raw[i] = Range(tables._raw)

\* What the generations do: the corpusama crawler extends _raw as C13 says (by
\* Database._add_missing_columns, as the specification describes it), the
\* datamgr crawler and rwapi never extend a table and store of a record the
\* columns the table has.
C13_OnlyCorpusamaExtends ==
    IF impl = "corpusama"
    THEN C13_FieldsBecomeColumns
    ELSE /\ tables = BaseTables
         /\ \A i \in 1..Len(db_raw) : DOMAIN db_raw[i] = Range(BaseTables._raw)

\* The key of the call record of the parameters p.
LogKey(p) == IF impl = "rwapi" THEN JsonDumps(p) ELSE Hash(p)

\* C14: after any sequence of calls _log holds one record for each distinct
\* parameter object that was logged and no other: two records have the same
\* hash only if their parameters are identical, a call with the parameters of
\* an earlier one replaces its record, and calls with different parameters
\* keep their own records.
C14_OneCallRecordPerParameters ==
    /\ \A i \in 1..Len(db_log), j \in 1..Len(db_log) :
           (db_log[i].api_params_hash = db_log[j].api_params_hash) <=> (i = j)
    /\ \A i \in 1..Len(db_log) :
           /\ db_log[i].api_params_hash = LogKey(db_log[i].api_params)
           /\ db_log[i].api_params \in DOMAIN last_rows._log
           /\ db_log[i].count = last_rows._log[db_log[i].api_params].count
    /\ \A p \in DOMAIN last_rows._log :
           \E i \in 1..Len(db_log) : db_log[i].api_params = p

C14_Witness ==
    /\ ops.table = "_log"
    /\ ops.replaced
    /\ Len(db_log) = 2
    /\ db_log[1].count # db_log[2].count

\* ---------------------------------------------- claims on the annotation
\* A run of make_vertical was started, and it ended.
InBatches == vert_run # Unset

BatchesEnded == InBatches /\ pc = "idle"

\* The records with a text when the run started, in the order of the query.
TextRows == SelectSeq(vert_start.raw, LAMBDA r : r.body_html # Null)

\* The ids the run has looked at: those of the windows it passed and of the
\* batch that raised.
Covered ==
    Range(IdsOf(SubSeq(TextRows, 1, Min(vert_run * vert_size, Len(TextRows)))))
        \cup UNION {Range(tagged[k]) : k \in 1..Len(tagged)}

TaggedIds == UNION {Range(tagged[k]) : k \in 1..Len(tagged)}

\* The record id and its annotated document when the run started.
RawAt(id) == CHOOSE r \in Rows(vert_start.raw) : r.id = id

Annotated(id) == \E v \in Rows(vert_start.vert) : v.id = id

VertAt(id) == CHOOSE v \in Rows(vert_start.vert) : v.id = id

\* C15: of the records a run looks at, it tags exactly those that have no
\* annotated document or whose changed (R) is later than the document's
\* vert_date (A); a record with R = A or R < A is not tagged and its document
\* stays as it was.
C15_DueIsAbsentOrChanged ==
    InBatches =>
        /\ TaggedIds \subseteq Range(IdsOf(TextRows))
        /\ \A id \in Covered :
               (id \in TaggedIds) <=>
                   (~Annotated(id) \/ RawAt(id).changed > VertAt(id).vert_date)
        /\ \A id \in Covered \ TaggedIds : VertAt(id) \in Rows(db_vert)

C15_Witness ==
    /\ BatchesEnded
    /\ \E id \in TaggedIds : Annotated(id) /\ RawAt(id).changed > VertAt(id).vert_date
    /\ \E id \in Covered \ TaggedIds : RawAt(id).changed = VertAt(id).vert_date

C15_WitnessOlder ==
    /\ BatchesEnded
    /\ \E id \in TaggedIds : ~Annotated(id)
    /\ \E id \in Covered \ TaggedIds : RawAt(id).changed < VertAt(id).vert_date

\* C16: no row of _vert has an empty vert, whatever runs were made; of a
\* batch that was tagged and stored, the records whose document has no
\* sentence are left out and the others are in _vert, stored by this run.
C16_NoEmptyDocumentStored ==
    /\ \A v \in Rows(db_vert) : v.vert # ""
    /\ InBatches =>
           \A k \in 1..Len(wrote) :
               /\ Range(wrote[k]) =
                      {id \in Range(tagged[k]) : Stanza(RawAt(id).body_html) # <<>>}
               /\ \A id \in Range(wrote[k]) :
                      \E v \in Rows(db_vert) :
                          /\ v.id = id
                          /\ v.vert_date = vert_start.now
                          /\ v.vert = MakeDoc(Stanza(RawAt(id).body_html))

C16_Witness ==
    /\ BatchesEnded
    /\ \E k \in 1..Len(wrote) :
           /\ Len(tagged[k]) = 2
           /\ Len(wrote[k]) = 1
           /\ \E id \in Range(tagged[k]) : RawAt(id).body_html = "empty"

\* The record's annotated document was older than the record when the run
\* started.
Stale(id) == Annotated(id) /\ RawAt(id).changed > VertAt(id).vert_date

StoredIds == UNION {Range(wrote[k]) : k \in 1..Len(wrote)}

VertRows(id) == {i \in 1..Len(db_vert) : db_vert[i].id = id}

\* C17 as stated: after a run that ended without error, every stale record it
\* covered has exactly one row in _vert, with a new vert_date.
C17_ReplacedWithNewDate ==
    (BatchesEnded /\ raised = "none") =>
        \A id \in Covered :
            Stale(id) =>
                /\ Cardinality(VertRows(id)) = 1
                /\ \A i \in VertRows(id) :
                       db_vert[i].vert_date > VertAt(id).vert_date

\* C17: a stale record that a run tags has exactly one row in _vert at any
\* point of the run: the new document with the run's vert_date once its batch
\* is stored and its document has a sentence, the old document as it was
\* otherwise (document without a sentence, or batch not stored).
C17_ReplacedUnlessEmpty ==
    InBatches =>
        \A id \in TaggedIds :
            Stale(id) =>
                /\ Cardinality(VertRows(id)) = 1
                /\ \A i \in VertRows(id) :
                       IF /\ \E k \in 1..Len(wrote) : id \in Range(tagged[k])
                          /\ Stanza(RawAt(id).body_html) # <<>>
                       THEN /\ db_vert[i].vert_date = vert_start.now
                            /\ db_vert[i].vert_date > VertAt(id).vert_date
                            /\ db_vert[i].vert = MakeDoc(Stanza(RawAt(id).body_html))
                       ELSE db_vert[i] = VertAt(id)

C17_Witness ==
    /\ BatchesEnded
    /\ raised = "none"
    /\ \E id \in StoredIds : Stale(id)

C17_WitnessEmpty ==
    /\ BatchesEnded
    /\ raised = "none"
    /\ \E id \in TaggedIds \ StoredIds : Stale(id)

C17_WitnessFailed ==
    /\ BatchesEnded
    /\ raised = "KeyError"
    /\ \E id \in TaggedIds \ StoredIds : Stale(id)

\* Every record with a text had an up-to-date annotated document when the
\* run started.
NoneDue ==
    \A i \in 1..Len(TextRows) :
        /\ Annotated(TextRows[i].id)
        /\ TextRows[i].changed <= VertAt(TextRows[i].id).vert_date

\* C18: a run started when no record is due tags nothing, writes nothing and
\* raises nothing; it passes over the windows of the records once and stops
\* at the first empty window.
C18_NothingDueNothingDone ==
    (InBatches /\ NoneDue) =>
        /\ tagged = <<>>
        /\ wrote = <<>>
        /\ db_vert = vert_start.vert
        /\ raised = "none"
        /\ vert_run * vert_size < Len(TextRows) + vert_size
        /\ (pc = "idle" => vert_run * vert_size >= Len(TextRows))

C18_Witness ==
    /\ BatchesEnded
    /\ NoneDue
    /\ Len(TextRows) = 2
    /\ vert_run = 2

\* C19: a batch has at most vert_size records; in a run with vert_runs >= 1
\* at most vert_runs batches are tagged and stored, and the run has stopped
\* once vert_runs batches are stored, whatever is still due.
C19_AtMostRunsBatchesOfSize ==
    InBatches =>
        /\ \A k \in 1..Len(tagged) : Len(tagged[k]) \in 1..vert_size
        /\ \A k \in 1..Len(wrote) : Len(wrote[k]) <= Len(tagged[k])
        /\ Len(wrote) <= Len(tagged)
        /\ vert_runs >= 1 =>
               /\ Len(tagged) <= vert_runs
               /\ Len(wrote) = vert_runs => pc = "idle"

C19_Witness ==
    /\ BatchesEnded
    /\ vert_runs = 1
    /\ Len(wrote) = 1
    /\ \E i \in 1..Len(TextRows) :
           /\ TextRows[i].id \notin TaggedIds
           /\ ~Annotated(TextRows[i].id)

\* The rows of a table for an id, in order.
RowsWithId(table, id) == SelectSeq(table, LAMBDA v : v.id = id)

\* The batch has a record with a tag that the tagset lacks.
Fails(k) == \E id \in Range(tagged[k]) : ~TagsKnown(Stanza(RawAt(id).body_html))

\* C20: a batch with a record whose tag is missing from the tagset raises
\* KeyError and ends the run; no record of that batch is stored, each keeps
\* the document it had when the run started (or none), and the records of
\* the batches stored before it keep the documents of this run.
C20_BatchStoredWhollyOrNotAtAll ==
    InBatches =>
        /\ raised = "KeyError" => (tagged # <<>> /\ Fails(Len(tagged)))
        /\ \A k \in 1..Len(tagged) :
               Fails(k) =>
                   /\ raised = "KeyError"
                   /\ pc = "idle"
                   /\ k = Len(tagged)
                   /\ Len(wrote) = k - 1
                   /\ \A id \in Range(tagged[k]) :
                          RowsWithId(db_vert, id) = RowsWithId(vert_start.vert, id)
                   /\ \A j \in 1..Len(wrote) : \A id \in Range(wrote[j]) :
                          \E v \in Rows(db_vert) :
                              v.id = id /\ v.vert_date = vert_start.now

C20_Witness ==
    /\ raised = "KeyError"
    /\ Len(tagged) = 1
    /\ Len(tagged[1]) = 2
    /\ \E id \in Range(tagged[1]) : RawAt(id).body_html = "ok"
    /\ \E id \in Range(tagged[1]) : RawAt(id).body_html = "bad"

C20_WitnessEarlier ==
    /\ raised = "KeyError"
    /\ Len(wrote) = 1
    /\ Len(tagged) = 2

\* ----------------------------------------------- claims on aborted crawls
\* The ids of the records the run has received.
PageIds == UNION {{resps[i].data[j].id : j \in 1..Len(resps[i].data)} : i \in 1..Len(resps)}

\* The run was ended by an exception on its page k = Len(reqs), k >= 2.
Aborted == Ended /\ hasDb /\ raised # "none" /\ Len(reqs) >= 2

\* C21: when an exception ends a run on its page k, the rows and the call
\* records of the pages 1..k-1 are in _raw and _log as they were committed,
\* and the rows and call records stored before the run that the run did not
\* replace are there too: nothing is rolled back.
C21_EarlierPagesStay ==
    Aborted =>
        /\ \A i \in 1..(Len(reqs) - 1) :
               /\ \A j \in 1..Len(resps[i].data) :
                      RawRows(resps[i], Hash(reqs[i]))[j] \in Rows(db_raw)
               /\ LogRows(Hash(reqs[i]), reqs[i], resps[i])[1] \in Rows(db_log)
        /\ \A r \in Rows(start.raw) : r.id \notin PageIds => r \in Rows(db_raw)
        /\ \A l \in Rows(start.log) :
               (\A i \in 1..Len(reqs) : l.api_params_hash # Hash(reqs[i]))
                   => l \in Rows(db_log)

C21_Witness ==
    /\ Aborted
    /\ raised \in ErrorClasses
    /\ Len(reqs) = 3
    /\ Len(db_raw) >= 2
    /\ Len(db_log) >= 2

\* ------------------------------------------------- claims on the formatting
\* stanza_to_vert has returned the documents of the bundle.
Formatted == pc = "idle" /\ bundle # <<>> /\ raised = "none"

\* The line of a word: surface TAB tag TAB lemma+suffix NEWLINE, the suffix
\* that of the tag in the tagset, the surface for a lemma the tagger left out.
WordLine(w) ==
    w.text \o "\t" \o w.xpos \o "\t"
        \o (IF w.lemma = PyNone THEN w.text ELSE w.lemma) \o tagset[w.xpos].lpos \o "\n"

\* The lines of a document: per sentence a start marker, the lines of its
\* words in order, an end marker.
RECURSIVE DocLines(_)
DocLines(doc) ==
    IF doc = <<>> THEN <<>>
    ELSE <<"<s>\n">> \o [i \in 1..Len(doc[1]) |-> WordLine(doc[1][i])] \o <<"</s>\n">>
             \o DocLines(Tail(doc))

RECURSIVE CountWords(_)
CountWords(doc) == IF doc = <<>> THEN 0 ELSE Len(doc[1]) + CountWords(Tail(doc))

\* C22: the text of a formatted document is its lines joined, w1+...+wk+2k
\* of them for k sentences of w1..wk words; formatting the same document under
\* another record id gives the same text; the word (Cats, NNS, cat) gives the
\* line Cats TAB NNS TAB cat-n NEWLINE.
C22_FormatIsLinesOfWords ==
    Formatted =>
        LET doc == bundle[1].doc
        IN  /\ formatted = <<Join(DocLines(doc))>>
            /\ Len(DocLines(doc)) = CountWords(doc) + 2 * Len(doc)
            /\ \A i \in 1..MaxDocs :
                   StanzaToVert(<<[id |-> i, doc |-> doc]>>).doc = formatted
            /\ doc = <<<<Word("Cats", "NNS", "cat")>>>>
                   => formatted = <<"<s>\nCats\tNNS\tcat-n\n</s>\n">>

C22_Witness ==
    /\ Formatted
    /\ Len(bundle[1].doc) = 2
    /\ Len(bundle[1].doc[1]) = 2
    /\ Len(bundle[1].doc[2]) = 1
    /\ bundle[1].doc[2][1] = Word("Cats", "NNS", "cat")
    /\ formatted[1] # ""

\* The words of a document that the tagger gave no lemma.
Gaps(doc) ==
    {w \in UNION {Range(doc[i]) : i \in 1..Len(doc)} : w.lemma = PyNone}

\* C23: of every batch that was tagged and stored, each word without a lemma
\* is logged with the id of its record and its text, and nothing else is
\* logged; the record's document is stored with the line of that word made
\* of the surface text in place of the lemma, among the lines of the other
\* words, and the other records of the batch are stored as well.
C23_LemmaGapLoggedNotFatal ==
    InBatches =>
        /\ \A k \in 1..Len(wrote) : \A id \in Range(tagged[k]) :
               LET doc == Stanza(RawAt(id).body_html)
               IN  /\ \A w \in Gaps(doc) : <<id, w.text>> \in Range(warnings)
                   /\ doc # <<>> =>
                          /\ id \in Range(wrote[k])
                          /\ \E v \in Rows(db_vert) :
                                 v.id = id /\ v.vert = Join(DocLines(doc))
        /\ \A i \in 1..Len(warnings) :
               /\ warnings[i][1] \in TaggedIds
               /\ \E w \in Gaps(Stanza(RawAt(warnings[i][1]).body_html)) :
                      w.text = warnings[i][2]
        /\ (raised = "none" /\ \E id \in TaggedIds : Gaps(Stanza(RawAt(id).body_html)) # {})
               => warnings # <<>>

C23_Witness ==
    /\ BatchesEnded
    /\ raised = "none"
    /\ Len(wrote) = 1
    /\ Len(wrote[1]) = 2
    /\ Len(warnings) = 2
    /\ \E v \in Rows(db_vert) :
           v.vert = "<s>\nCats\tNN\tcat-n\nran\tVB\trun-v\n</s>\n<s>\nOk\tNN\tOk-n\n</s>\n"

\* ------------------------------------------- claims on upserts of a record
\* The columns of _raw that hold fields of a record.
FieldColumns == Range(tables._raw) \ {"api_params_hash"}

\* C24 as stated: after a write that replaced a row, the row of a record id
\* holds exactly the values of the fields last given for it (F2): every field of F2 is held, and every column
\* that is no field of F2 is NULL, whatever an earlier write (F1) had put
\* there.
C24_RowHoldsLastFieldsOnly ==
    (ops.table = "_raw" /\ ops.replaced) =>
        \A i \in 1..Len(db_raw) :
            LET F2 == last_rows._raw[db_raw[i].id]
            IN  /\ \A f \in DOMAIN F2 : f \in DOMAIN db_raw[i] /\ db_raw[i][f] = F2[f]
                /\ \A c \in FieldColumns \ DOMAIN F2 : db_raw[i][c] = Null

\* What holds in every generation: on the columns the table has, the row is
\* the last record given, NULL where that record has no field; nothing of an
\* earlier row of the id is kept.
C24_NoMergeOnColumns ==
    \A i \in 1..Len(db_raw) :
        LET F2 == last_rows._raw[db_raw[i].id]
        IN  /\ \A f \in DOMAIN F2 \cap FieldColumns : db_raw[i][f] = F2[f]
            /\ \A c \in FieldColumns \ DOMAIN F2 : db_raw[i][c] = Null

C24_WitnessNulled ==
    /\ ops.table = "_raw"
    /\ ops.replaced
    /\ "lang" \in Range(tables._raw)
    /\ \E i \in 1..Len(db_raw) :
           /\ DOMAIN last_rows._raw[db_raw[i].id] = {"id"}
           /\ db_raw[i].title = Null
           /\ db_raw[i].lang = Null

\* -------------------------------------------- claims on the stored files
\* The files del_exclude_files found that have a word among the excludes.
Matching ==
    {x \in del_start.files : Delete(x, Excludes(del_start.names))}

\* C25 as stated: a file that del_exclude_files removed has a word of its
\* lower-cased stem among the selected excludes, or is the .txt companion of
\* such a file; a file without such a word stays; with dry_run nothing is
\* removed; del_files holds exactly the files with a match.
C25_OnlyMatchingDeleted ==
    del_start.ran =>
        /\ \A x \in del_start.files \ files :
               \E y \in Matching : x \in {y, WithSuffixTxt(y)}
        /\ del_start.dry_run => files = del_start.files
        /\ del_files = Matching

\* What the code does: without dry_run it removes every file it found, with
\* or without a match; del_files and dry_run are as C25 says.
C25_EveryFileDeleted ==
    del_start.ran =>
        /\ files = (IF del_start.dry_run THEN del_start.files ELSE {})
        /\ del_files = Matching

C25_WitnessAllGone ==
    /\ del_start.ran
    /\ ~del_start.dry_run
    /\ del_start.names = [type |-> "str", value |-> "languages"]
    /\ [stem |-> <<"report">>, suffix |-> ".pdf"] \in del_start.files
    /\ [stem |-> <<"report", "Spanish">>, suffix |-> ".pdf"] \in del_files
    /\ files = {}


\* ------------------------------------------- claims on the end of a run
\* The rows with source text that a run pages through.
RunTexts == SelectSeq(db_raw, LAMBDA r : r.body_html # Null)

\* The windows of a run that are still to be fetched, the one at vert_run
\* included: the measure of a run.
WindowsLeft ==
    IF vert_run * vert_size < Len(RunTexts)
    THEN (Len(RunTexts) - vert_run * vert_size + vert_size - 1) \div vert_size
    ELSE 0

\* C26: every run of the batcher terminates: a pass of batch() either ends the
\* run or moves to the next window of an unchanged, finite _raw, and it goes on
\* only while a window is left, so that a run over n rows with text makes at
\* most ceil(n / batch_size) + 1 passes, for every batch_size >= 1 and every
\* max_batches, 0 included, whatever the windows hold.
C26_EveryPassEndsOrAdvances ==
    [][pc = "batch" =>
          \/ pc' = "idle"
          \/ /\ pc' = "batch"
             /\ db_raw' = db_raw
             /\ vert_size' = vert_size
             /\ vert_size >= 1
             /\ WindowsLeft > 0
             /\ WindowsLeft' = WindowsLeft - 1]_vars

\* A run without limit has ended after a window of up-to-date records only
\* and a window of records with empty content only.
C26_Witness ==
    /\ pc = "idle"
    /\ raised = "none"
    /\ vert_runs = 0
    /\ vert_size = 1
    /\ vert_run = 2
    /\ tagged = <<<<2>>>>
    /\ wrote = <<<<>>>>
    /\ \E i \in 1..Len(db_vert) : db_vert[i].id = 1


\* ------------------------------------------- claims on repeated runs
\* The tagged content of a row of _raw.
ContentOf(r) == MakeDoc(Stanza(r.body_html))

\* Every row with text has tags that the tagset knows: no run fails.
NoBadText == \A i \in 1..Len(RunTexts) : TagsKnown(Stanza(RunTexts[i].body_html))

\* Some row with text has tagged content without lines.
SomeEmptyText == \E i \in 1..Len(RunTexts) : Len(ContentOf(RunTexts[i])) = 0

\* The ids of the rows with text and non-empty tagged content that lack an
\* up-to-date document in _vert.
OkDue ==
    {RunTexts[i].id : i \in {j \in 1..Len(RunTexts) :
        /\ TagsKnown(Stanza(RunTexts[j].body_html))
        /\ Len(ContentOf(RunTexts[j])) > 0
        /\ ~\E v \in Rows(db_vert) :
               v.id = RunTexts[j].id /\ v.vert_date >= RunTexts[j].changed}}

\* A run with a limit of batches has ended without error over records that
\* did not change.
LimitedRunEnded ==
    /\ BatchesEnded
    /\ raised = "none"
    /\ vert_runs >= 1
    /\ NoBadText
    /\ db_raw = vert_start.raw

\* C27: repeated runs with batch_size >= 1 and max_batches >= 1 over unchanged
\* records annotate in the end every record with text and non-empty content,
\* also when other records always yield empty content: a run is determined by
\* the two tables and its arguments, so a run that ends without error and
\* leaves _vert as it found it must leave no such record due.
C27_RunAdvancesOrNothingDue ==
    (LimitedRunEnded /\ db_vert = vert_start.vert) => OkDue = {}

\* Where no record yields empty content, a run that leaves _vert as it found it
\* leaves nothing due.
C27_AdvancesWithoutEmpty ==
    (LimitedRunEnded /\ ~SomeEmptyText /\ db_vert = vert_start.vert) => OkDue = {}

\* A run of one batch of one record has tagged an empty record again and left
\* the record behind it without document.
C27_WitnessStarved ==
    /\ LimitedRunEnded
    /\ vert_size = 1
    /\ vert_runs = 1
    /\ tagged = <<<<1>>>>
    /\ wrote = <<<<>>>>
    /\ db_vert = <<>>
    /\ OkDue = {2}


\* ------------------------------------------- claims on repeated harvests
\* The ids of the records a table _raw holds.
IdsStored(table) == {r.id : r \in Rows(table)}

\* The records of the source that the caller's filter asks for and that _raw
\* does not hold.
Missing ==
    {r \in Rows(src) : /\ FilterMatches(r, original_parameters.filter)
                       /\ r.id \notin IdsStored(db_raw)}

\* An INCREMENTAL run of at least one call has ended at its limit or at the
\* end of the data.
IncrementalEnded ==
    /\ mode = "INCREMENTAL"
    /\ pc = "idle"
    /\ limit >= 1
    /\ halt \in {"limit", "exhausted"}

\* The records of the source that match the filter of this run and carry the
\* latest stored timestamp.
AtLatest ==
    {r \in Rows(src) : /\ FilterMatches(r, original_parameters.filter)
                       /\ date_changed_vals # {}
                       /\ r.changed = SetMax(date_changed_vals)}

\* C28: repeated INCREMENTAL runs with max_calls >= 1 and any page size store
\* in the end every record of an unchanging source that matches the caller's
\* filter, and do not fetch the same page forever: the requests of a run are
\* determined by the stored records, the source and the arguments, so a run
\* that ends with the same records stored as when it began must leave no
\* record of the source missing.
C28_RunStoresOrNothingMissing ==
    (IncrementalEnded /\ IdsStored(db_raw) = IdsStored(start.raw)) => Missing = {}

\* A run whose calls can hold more records than carry the latest stored
\* timestamp stores a new record, or nothing is missing.
C28_AdvancesPastLatest ==
    (IncrementalEnded /\ IdsStored(db_raw) = IdsStored(start.raw)
         /\ limit * original_parameters.limit > Cardinality(AtLatest))
    => Missing = {}

\* The second INCREMENTAL run of one call of one record has fetched again the
\* record the first had stored, and the records that share its timestamp are
\* still missing.
C28_WitnessSamePage ==
    /\ IncrementalEnded
    /\ runs = 2
    /\ limit = 1
    /\ original_parameters.limit = 1
    /\ Len(src) = 3
    /\ Len(resps) = 1
    /\ resps[1].data = <<src[1]>>
    /\ IdsStored(start.raw) = {1}
    /\ IdsStored(db_raw) = {1}
    /\ Cardinality(Missing) = 2


\* ------------------------------------------- claims on the filter of a run
\* The conditions on date.changed among the conditions of a filter.
TimestampConditions(filter) ==
    SelectSeq(filter.conditions, LAMBDA c : c.field = "date.changed")

\* The conditions of a filter that are not on date.changed.
OtherConditions(filter) ==
    SelectSeq(filter.conditions, LAMBDA c : c.field # "date.changed")

\* The requests of the INCREMENTAL run that is under way or has ended.
IncrementalRequests == IF mode = "INCREMENTAL" THEN Range(reqs) ELSE {}

\* C29 as stated: every filter sent by an INCREMENTAL run holds the conditions
\* of the caller's filter and exactly one condition on the changed timestamp.
C29_ExactlyOneTimestampCondition ==
    \A p \in IncrementalRequests :
        /\ OtherConditions(p.filter) = original_parameters.filter.conditions
        /\ Len(TimestampConditions(p.filter)) = 1

\* C29, amended: every filter sent by an INCREMENTAL run holds the conditions
\* of the caller's filter, followed by exactly one condition on the changed
\* timestamp when the store held records at the start of the run and by
\* nothing when it was empty; conditions of earlier runs do not accumulate,
\* and original_parameters is never modified.
C29_OriginalPlusOneUnlessEmpty ==
    /\ [](\A p \in IncrementalRequests :
              /\ OtherConditions(p.filter) = original_parameters.filter.conditions
              /\ Len(p.filter.conditions)
                     = Len(original_parameters.filter.conditions)
                       + (IF start.raw # <<>> THEN 1 ELSE 0)
              /\ Len(TimestampConditions(p.filter))
                     = (IF start.raw # <<>> THEN 1 ELSE 0))
    /\ [][original_parameters' = original_parameters]_vars

\* A third run on one store, INCREMENTAL after an INCREMENTAL run that had
\* rewritten the caller's filter, has sent its request.
C29_Witness ==
    /\ mode = "INCREMENTAL"
    /\ runs = 3
    /\ reqs # <<>>
    /\ original_parameters.filter.conditions # <<>>
    /\ start.raw # <<>>
    /\ \E i \in 1..Len(start.log) :
           TimestampConditions(start.log[i].api_params.filter) # <<>>

\* The first INCREMENTAL run on an empty store has sent the caller's filter
\* as it is.
C29_WitnessEmptyStore ==
    /\ mode = "INCREMENTAL"
    /\ runs = 1
    /\ reqs # <<>>
    /\ start.raw = <<>>
    /\ reqs[1].filter = original_parameters.filter


\* ------------------------------------------- claims on the commits of a page
\* The rows of _raw whose api_params_hash no row of _log carries.
Unlogged ==
    {r \in Rows(db_raw) : \A l \in Rows(db_log) : l.api_params_hash # r.api_params_hash}

\* C30: every state of the database is left by a commit, and in each of them
\* every row of _raw carries the hash of a call that _log holds: the records
\* of a page are never stored without the record of the call that fetched
\* them.
C30_EveryRecordHasItsCall == Unlogged = {}

\* Between two pages, and when a run has ended, every row of _raw has its
\* call in _log.
C30_LoggedBetweenPages ==
    pc \notin {"raw_done", "stored"} => Unlogged = {}

\* The commit of a page's rows has been made and the commit of its call has
\* not: the first page of a run is in _raw and _log is empty.
C30_WitnessBetweenCommits ==
    /\ pc = "raw_done"
    /\ db_raw # <<>>
    /\ db_log = <<>>

====
